---- MODULE Spec2Model ----
(***************************************************************************)
(* A model of two units of the aquacrop package:                           *)
(*                                                                         *)
(*   solution/rainfall_partition.py   rainfall_partition                   *)
(*   initialize/read_model_parameters.py   read_model_parameters           *)
(*                                                                         *)
(* rainfall_partition works on float64 values.  TLC's integers have 32     *)
(* bits, so the model carries binary floating point numbers with MantBits  *)
(* bits of significand (instead of 53), round-to-nearest-even after every  *)
(* operation, exactly as IEEE 754 prescribes.  A float is <<m, e>> with    *)
(* value m * 2^e, m = 0 or 2^(MantBits-1) <= |m| < 2^MantBits.             *)
(***************************************************************************)
EXTENDS Integers, Sequences, FiniteSets, TLC

VARIABLES
    call,       \* rainfall_partition: the arguments of the call
    ret,        \* rainfall_partition: what the call produced
    pc,         \* read_model_parameters: position in the function
    soil,       \* read_model_parameters: soil.profile dz per compartment (cm), zSoil
    crop,       \* read_model_parameters: the crop record
    crop0,      \* the crop record as it was when the function was entered
    clock,      \* read_model_parameters: the clock_struct record
    locals,     \* read_model_parameters: the locals plant_years, harvest_years and loc_
    raised      \* read_model_parameters: the exception that left the function, or "none"

vars == <<call, ret, pc, soil, crop, crop0, clock, locals, raised>>

---------------------------------------------------------------------------
(* Floating point with MantBits bits of significand.                       *)

MantBits == 12

Abs(n) == IF n < 0 THEN -n ELSE n
Sgn(n) == IF n < 0 THEN -1 ELSE 1
Lo == 2 ^ (MantBits - 1)
Hi == 2 ^ MantBits

FZero == <<0, 0>>

\* Let(v, LAMBDA x : e) is e with x bound to the value of v: v is evaluated once
\* however often e reads x
Let(v, F(_)) == CHOOSE r \in {F(x) : x \in {v}} : TRUE

RECURSIVE BitLen(_)
BitLen(n) == IF n = 0 THEN 0 ELSE 1 + BitLen(n \div 2)

\* n >= 2^MantBits cut by k bits: round to nearest, ties to even
RoundCut(n, e, sticky, k) ==
    Let(n \div (2 ^ k), LAMBDA q :
    Let(n % (2 ^ k), LAMBDA r :
    Let(2 ^ (k - 1), LAMBDA half :
    Let(IF (r > half) \/ (r = half /\ (sticky \/ q % 2 = 1)) THEN q + 1 ELSE q, LAMBDA m :
        IF m = Hi THEN <<Lo, e + k + 1>> ELSE <<m, e + k>>))))

\* round the magnitude n * 2^e (plus, when sticky, a non-zero part below the
\* last bit of n) to MantBits bits, ties to even
RoundMag(n, e, sticky) ==
    IF n = 0 THEN FZero
    ELSE Let(BitLen(n) - MantBits, LAMBDA k :
             IF k <= 0 THEN <<n * (2 ^ (-k)), e + k>>
             ELSE RoundCut(n, e, sticky, k))

FRound(sign, n, e, sticky) ==
    Let(RoundMag(n, e, sticky), LAMBDA r : <<sign * r[1], r[2]>>)

FromInt(n) == Let(n, LAMBDA x : FRound(Sgn(x), Abs(x), 0, FALSE))

FNeg(a) == Let(a, LAMBDA x : <<-x[1], x[2]>>)

FMul(a, b) ==
    Let(a, LAMBDA x : Let(b, LAMBDA y :
        FRound(Sgn(x[1]) * Sgn(y[1]), Abs(x[1]) * Abs(y[1]), x[2] + y[2], FALSE)))

\* a / b for b # 0: MantBits + 2 extra quotient bits, the remainder is the sticky bit
FDiv(a, b) ==
    Let(a, LAMBDA x : Let(b, LAMBDA y :
    Let(Abs(x[1]) * (2 ^ (MantBits + 2)), LAMBDA n :
        FRound(Sgn(x[1]) * Sgn(y[1]), n \div Abs(y[1]),
               x[2] - y[2] - (MantBits + 2), n % Abs(y[1]) # 0))))

\* x + y for x[2] >= y[2]
AddAligned(x, y) ==
    IF x[2] - y[2] > MantBits + 2 THEN x
    ELSE Let(x[1] * (2 ^ (x[2] - y[2])) + y[1], LAMBDA n :
             FRound(Sgn(n), Abs(n), y[2], FALSE))

FAdd(a, b) ==
    Let(a, LAMBDA x : Let(b, LAMBDA y :
        IF x[1] = 0 THEN y
        ELSE IF y[1] = 0 THEN x
        ELSE IF x[2] >= y[2] THEN AddAligned(x, y) ELSE AddAligned(y, x)))

FSub(a, b) == FAdd(a, FNeg(b))

\* a < b on normalised floats
FLt(a, b) ==
    Let(a, LAMBDA x : Let(b, LAMBDA y :
        IF x[1] <= 0 /\ y[1] > 0 THEN TRUE
        ELSE IF x[1] >= 0 /\ y[1] <= 0 THEN FALSE
        ELSE IF x[1] < 0 /\ y[1] = 0 THEN TRUE
        ELSE IF x[1] > 0
        THEN x[2] < y[2] \/ (x[2] = y[2] /\ x[1] < y[1])
        ELSE x[2] > y[2] \/ (x[2] = y[2] /\ x[1] < y[1])))

FLe(a, b) == Let(a, LAMBDA x : Let(b, LAMBDA y : x = y \/ FLt(x, y)))

\* the float nearest to the decimal literal n/d
Lit(n, d) == FDiv(FromInt(n), FromInt(d))

\* a[2] < 0: the nearest integer to a, ties to even
RoundFrac(a, k) ==
    Let(Abs(a[1]) \div (2 ^ k), LAMBDA q :
    Let(Abs(a[1]) % (2 ^ k), LAMBDA r :
    Let(2 ^ (k - 1), LAMBDA half :
        Sgn(a[1]) * (IF r > half \/ (r = half /\ q % 2 = 1) THEN q + 1 ELSE q))))

\* Python's round(x): the nearest integer, ties to even
PyRound(a) ==
    Let(a, LAMBDA x :
        IF x[2] >= 0 THEN x[1] * (2 ^ x[2])
        ELSE IF -x[2] > MantBits + 1 THEN 0
        ELSE RoundFrac(x, -x[2]))

---------------------------------------------------------------------------
(* solution/rainfall_partition.py                                          *)

\* the literals of the function
c5over100 == FDiv(FromInt(5), FromInt(100))
c1minus5over100 == FSub(FromInt(1), c5over100)
cBundMin == Lit(1, 1000)
\* np.exp(-14 * np.log(10)) = 1e-14, which is 2882.3 * 2^-58
cExpM14 == FRound(1, 2882, -58, FALSE)

\* np.exp(-4.16 * (dzsum / zCN)) for the cumulative depths and reference
\* depths (cm) of the profiles below, to four decimals
NpExpM416(dzsum, zCN) ==
    CASE dzsum * 3 = zCN     -> Lit(2499, 10000)
      [] dzsum * 3 = zCN * 2 -> Lit(625, 10000)
      [] dzsum = zCN         -> Lit(156, 10000)
      [] OTHER               -> FZero

\* line 79 with "zBund <= 0.001" for "zBund < 0.001"
RunoffNotInhibitedLe(c) ==
    c.SRinhb = 0 /\ (c.Bunds = 0 \/ FLe(c.zBund, cBundMin))

\* line 79: surface runoff is not inhibited and no soil bunds are on the field
RunoffNotInhibited(c) ==
    c.SRinhb = 0 /\ (c.Bunds = 0 \/ FLt(c.zBund, cBundMin))

\* line 84
AdjustedCN(c) ==
    FMul(c.Soil_CN, FAdd(FromInt(1), FDiv(FromInt(c.CNadjPct), FromInt(100))))

\* lines 87-92 and 93-98
CNbot(CN) ==
    PyRound(FAdd(FSub(FAdd(FMul(Lit(14, 10), cExpM14), FMul(Lit(507, 1000), CN)),
                      FMul(Lit(374, 100000), FMul(CN, CN))),
                 FMul(Lit(867, 10000000), FMul(FMul(CN, CN), CN))))
CNtop(CN) ==
    PyRound(FAdd(FSub(FAdd(FMul(Lit(56, 10), cExpM14), FMul(Lit(233, 100), CN)),
                      FMul(Lit(209, 10000), FMul(CN, CN))),
                 FMul(Lit(76, 1000000), FMul(FMul(CN, CN), CN))))

\* lines 101-105: the compartments above the reference depth
CompSto(c) == c.nComp - Cardinality({i \in 1..c.nComp : c.dzsum[i] >= c.zCN})

\* lines 111-114
Wx(c, ii) ==
    Let(IF c.dzsum[ii] > c.zCN THEN c.zCN ELSE c.dzsum[ii], LAMBDA dz :
        FMul(Lit(1016, 1000), FSub(FromInt(1), NpExpM416(dz, c.zCN))))

\* lines 115-119
Clip01(w) ==
    Let(w, LAMBDA x :
        IF FLt(x, FZero) THEN FZero ELSE IF FLt(FromInt(1), x) THEN FromInt(1) ELSE x)

\* lines 108-121: wrel[ii] = clip(wx - xx, 0, 1), xx the wx of the compartment above
Wrel(c, ii) == Clip01(FSub(Wx(c, ii), IF ii = 1 THEN FZero ELSE Wx(c, ii - 1)))

\* lines 128-130: one term of the sum
WetTerm(c, ii) ==
    Let(IF FLt(c.th[ii], c.th_wp[ii]) THEN c.th_wp[ii] ELSE c.th[ii], LAMBDA th :
        FMul(Wrel(c, ii), FDiv(FSub(th, c.th_wp[ii]), FSub(c.th_fc[ii], c.th_wp[ii]))))

\* lines 124-131: the sum over the first n compartments
WetTopSum(c, n) ==
    LET acc[k \in 0..n] == IF k = 0 THEN FZero ELSE FAdd(acc[k - 1], WetTerm(c, k))
    IN  acc[n]

\* lines 134-137
WetTop(c) ==
    Let(WetTopSum(c, CompSto(c)), LAMBDA w :
        IF FLt(FromInt(1), w) THEN FromInt(1) ELSE IF FLt(w, FZero) THEN FZero ELSE w)

\* line 139
MoistureCN(bot, top, wet) ==
    FromInt(PyRound(FAdd(FromInt(bot), FMul(FromInt(top - bot), wet))))

\* lines 84-139: the curve number the partition uses
EffectiveCN(c) ==
    Let(AdjustedCN(c), LAMBDA CN :
        IF c.AdjCN = 1
        THEN Let(CNbot(CN), LAMBDA bot : Let(CNtop(CN), LAMBDA top :
                 MoistureCN(bot, top, WetTop(c))))
        ELSE CN)

\* lines 148-149
RunoffAndInfl(P, term, den) ==
    IF den = FZero
    THEN [status |-> "ZeroDivisionError", Runoff |-> FZero, Infl |-> FZero]
    ELSE Let(FDiv(FMul(term, term), den), LAMBDA Runoff :
             [status |-> "returned", Runoff |-> Runoff, Infl |-> FSub(P, Runoff)])

\* lines 142-149
Partition(c, CN) ==
    IF CN = FZero
    THEN [status |-> "ZeroDivisionError", Runoff |-> FZero, Infl |-> FZero]
    ELSE Let(FSub(FDiv(FromInt(25400), CN), FromInt(254)), LAMBDA S :
         Let(FSub(c.precipitation, FMul(c5over100, S)), LAMBDA term :
             IF FLe(term, FZero)
             THEN [status |-> "returned", Runoff |-> FZero, Infl |-> c.precipitation]
             ELSE RunoffAndInfl(c.precipitation, term,
                                FAdd(c.precipitation, FMul(c1minus5over100, S)))))

\* lines 79-156: the whole function.  branch and CN record the path taken.
rainfall_partition(c) ==
    IF RunoffNotInhibited(c)
    THEN Let(EffectiveCN(c), LAMBDA CN : Let(Partition(c, CN), LAMBDA r :
             [status |-> r.status, Runoff |-> r.Runoff, Infl |-> r.Infl,
              DaySubmerged |-> 0, branch |-> "runoff", CN |-> CN]))
    ELSE [status |-> "returned", Runoff |-> FZero, Infl |-> c.precipitation,
          DaySubmerged |-> c.DaySubmerged, branch |-> "bunds", CN |-> FZero]

\* the inputs the model draws
PrecipSet == {FromInt(k) : k \in {0, 2, 20, 187}}
SoilCNSet == {Lit(1, 2), FromInt(36), FromInt(75), FromInt(100)}
CNadjPctSet == {-150, -50, 0}
zBundSet == {FZero, Lit(5, 10000), cBundMin, Lit(2, 10)}
ThSet == {Lit(5, 100), Lit(2, 10), Lit(4, 10)}
zCNSet == {10, 30}

NoCall == [precipitation |-> FZero]
NoRet == [status |-> "none"]

RainInit ==
    /\ call \in [precipitation : PrecipSet, th : {<<t, t, t>> : t \in ThSet},
                 DaySubmerged : {0, 3}, SRinhb : {0, 1}, Bunds : {0, 1},
                 zBund : zBundSet, CNadjPct : CNadjPctSet, Soil_CN : SoilCNSet,
                 AdjCN : {0, 1}, zCN : zCNSet, nComp : {3},
                 dzsum : {<<10, 20, 30>>},
                 th_wp : {<<Lit(1, 10), Lit(1, 10), Lit(1, 10)>>},
                 th_fc : {<<Lit(3, 10), Lit(3, 10), Lit(3, 10)>>}]
    /\ ret = [status |-> "pending"]

CallRainfallPartition ==
    /\ ret.status = "pending"
    /\ ret' = rainfall_partition(call)
    /\ UNCHANGED <<call, pc, soil, crop, crop0, clock, locals, raised>>

---------------------------------------------------------------------------
(* initialize/read_model_parameters.py                                     *)
(*                                                                         *)
(* Depths are integers in centimetres (soil.fill_nan keeps two decimals).  *)
(* A day/month string such as crop.planting_date is the pair <<m, d>>, a   *)
(* date is <<y, m, d>>.                                                    *)

DzLimit == 25         \* dz < 0.25
DzStep == 10          \* dz += 0.1
DepthMargin == 10     \* crop.Zmax + 0.1
RowLimit == 100       \* the slice 0:100 of sf_es
HarvestSlack == 30    \* crop.MaturityCD + 30
RefYear == 1990       \* "1990/" + crop.planting_date

RECURSIVE SumSeq(_)
SumSeq(s) == IF s = <<>> THEN 0 ELSE Head(s) + SumSeq(Tail(s))

\* soil.fill_nan(): recomputes the cumulative depths, zSoil is the depth of the column
fill_nan(dz) == [dz |-> dz, zSoil |-> SumSeq(dz)]

\* line 57
DepthUnmet(sl, cr) == sl.zSoil < cr.Zmax + DepthMargin

\* line 59
Eligible(sl, i) == sl.dz[i] < DzLimit

\* lines 58-62: the deepest compartment with dz < 0.25 grows by 0.1; none: no change
GrowDeepest(sl) ==
    IF \E i \in DOMAIN sl.dz : Eligible(sl, i)
    THEN LET i == CHOOSE k \in DOMAIN sl.dz :
                      /\ Eligible(sl, k)
                      /\ \A j \in DOMAIN sl.dz : j > k => ~Eligible(sl, j)
         IN  fill_nan([sl.dz EXCEPT ![i] = @ + DzStep])
    ELSE sl

\* dates
IsLeap(y) == y % 4 = 0 /\ (y % 100 # 0 \/ y % 400 = 0)
DaysInMonth(y, m) ==
    IF m = 2 THEN (IF IsLeap(y) THEN 29 ELSE 28)
    ELSE IF m \in {4, 6, 9, 11} THEN 30 ELSE 31
ValidDate(y, md) == md[1] \in 1..12 /\ md[2] \in 1..DaysInMonth(y, md[1])
DateLt(a, b) ==
    \/ a[1] < b[1]
    \/ a[1] = b[1] /\ a[2] < b[2]
    \/ a[1] = b[1] /\ a[2] = b[2] /\ a[3] < b[3]

\* pd.to_datetime(str(y) + "/" + md): the date, or no date when the day does not exist
to_datetime(y, md) == IF ValidDate(y, md) THEN <<y, md[1], md[2]>> ELSE <<>>

RECURSIVE DaysBefore(_, _)
DaysBefore(y, m) == IF m = 1 THEN 0 ELSE DaysBefore(y, m - 1) + DaysInMonth(y, m - 1)
DayOfYear(y, md) == DaysBefore(y, md[1]) + md[2]
RECURSIVE MonthOfDay(_, _, _)
MonthOfDay(y, n, m) ==
    IF n <= DaysInMonth(y, m) THEN <<m, n>> ELSE MonthOfDay(y, n - DaysInMonth(y, m), m + 1)

\* lines 235-238: the day/month of 1990/planting_date + (MaturityCD + 30) days
\* (1990 and 1991 have 365 days; MaturityCD + 30 <= 365 in the model)
NewHarvestDate(cr) ==
    LET mature == cr.MaturityCD + HarvestSlack
        n      == DayOfYear(RefYear, cr.planting_date) + mature
    IN  MonthOfDay(RefYear, ((n - 1) % 365) + 1, 1)

\* the stress response curve that calibrate_soil_fert_stress leaves on the crop:
\* sf_es in thousandths, 102 rows, in three shapes
sf_es(shape) ==
    [i \in 1..(RowLimit + 2) |->
        CASE shape = "increasing" -> 5 * (i - 1)
          [] shape = "plateaus"   -> 10 * ((i - 1) \div 2)
          [] OTHER                -> 5 * Abs(50 - i)]
Ksccx_es(shape) == [i \in 1..(RowLimit + 2) |-> 1000 + i]
Ksexpf_es(shape) == [i \in 1..(RowLimit + 2) |-> 2000 + i]
Kswp_es(shape) == [i \in 1..(RowLimit + 2) |-> 3000 + i]
fcdecline_es(shape) == [i \in 1..(RowLimit + 2) |-> 4000 + i]

\* sf_es with the slice [0:100] left out
WholeCurve(s) == s

\* sf_es[0:100]
First100(s) == SubSeq(s, 1, IF Len(s) < RowLimit THEN Len(s) ELSE RowLimit)

\* np.argmin(np.abs(a - x)): the first index of the least distance (1-based here)
ArgMinAbs(a, x) ==
    CHOOSE i \in DOMAIN a :
        /\ \A j \in DOMAIN a : Abs(a[i] - x) <= Abs(a[j] - x)
        /\ \A j \in DOMAIN a : j < i => Abs(a[j] - x) > Abs(a[i] - x)

\* line 178; rows are numbered from 1 here, so loc_ is the code's loc_ + 1
Loc(cr) == ArgMinAbs(First100(sf_es(cr.curve)), cr.sfertstress)

\* compute_crop_calendar: the calendar-day stage thresholds of the crop become
\* growing-degree-day thresholds
compute_crop_calendar(cr) == [cr EXCEPT !.thresholds = "gdd"]

\* calibrate_soil_fert_stress: leaves the stress response curve on the crop
calibrate_soil_fert_stress(cr, shape) == [cr EXCEPT !.curve = shape]

\* lines 181-196
SetCalibrated(cr, loc_) ==
    [cr EXCEPT !.Ksccx = Ksccx_es(cr.curve)[loc_],
               !.Ksexpf = Ksexpf_es(cr.curve)[loc_],
               !.Kswp = Kswp_es(cr.curve)[loc_],
               !.fcdecline = fcdecline_es(cr.curve)[loc_]]

\* lines 235-239
SetHarvestDate(cr) == [cr EXCEPT !.harvest_date = NewHarvestDate(cr)]

\* range(a, b)
Range(a, b) == [i \in 1..(b - a) |-> a + i - 1]

\* lines 254-256
SingleYear(cr) ==
    DateLt(to_datetime(RefYear, cr.planting_date), to_datetime(RefYear, cr.harvest_date))

\* line 264 with "<" for "<="
LastYearDoesNotStartLt(mock_end, mock_start) == DateLt(mock_end, mock_start)

\* line 264
LastYearDoesNotStart(mock_end, mock_start) == mock_end = mock_start \/ DateLt(mock_end, mock_start)

\* lines 276-279
CoversTwoMoreYears(cr, ck, end_year) ==
    DateLt(to_datetime(end_year + 2, cr.harvest_date), ck.simulation_end_date)

\* lines 281-287 with the harvest years not shifted by one
CrossYearYearsSame(start_year, end_year, covers) ==
    IF covers
    THEN [plant_years |-> Range(start_year, end_year + 1),
          harvest_years |-> Range(start_year, end_year + 1)]
    ELSE [plant_years |-> Range(start_year, end_year),
          harvest_years |-> Range(start_year, end_year)]

\* lines 281-287
CrossYearYears(start_year, end_year, covers) ==
    IF covers
    THEN [plant_years |-> Range(start_year, end_year + 1),
          harvest_years |-> Range(start_year + 1, end_year + 2)]
    ELSE [plant_years |-> Range(start_year, end_year),
          harvest_years |-> Range(start_year + 1, end_year + 1)]

\* lines 291-294
PartialFirstSeason(cr, ck, plant_years) ==
    DateLt(to_datetime(plant_years[1], cr.planting_date), ck.simulation_start_date)

\* lines 308-322
SeasonDates(ys, md) == [i \in DOMAIN ys |-> to_datetime(ys[i], md)]

(* the steps of read_model_parameters *)

\* line 57, the loop test
WhileDepth ==
    /\ pc = "while_depth"
    /\ pc' = IF DepthUnmet(soil, crop) THEN "grow" ELSE "calendar"
    /\ UNCHANGED <<call, ret, soil, crop, crop0, clock, locals, raised>>

\* lines 58-62, the loop body
Grow ==
    /\ pc = "grow"
    /\ soil' = GrowDeepest(soil)
    /\ pc' = "while_depth"
    /\ UNCHANGED <<call, ret, crop, crop0, clock, locals, raised>>

\* lines 140-173: GDD mode, calibration needed, no stress value
CalibrateNoStress ==
    /\ pc = "calendar" /\ crop.CalendarType = 2 /\ crop.need_calib = 1
    /\ crop.sfertstress = 0
    /\ \E shape \in {"increasing", "plateaus", "vee"} :
           crop' = calibrate_soil_fert_stress(compute_crop_calendar(crop), shape)
    /\ raised' = "ValueError: no stress value"
    /\ pc' = "raised"
    /\ UNCHANGED <<call, ret, soil, crop0, clock, locals>>

\* lines 140-209 and 235-239: GDD mode, calibration needed
Calibrate ==
    /\ pc = "calendar" /\ crop.CalendarType = 2 /\ crop.need_calib = 1
    /\ crop.sfertstress # 0
    /\ \E shape \in {"increasing", "plateaus", "vee"} :
           LET cr == calibrate_soil_fert_stress(compute_crop_calendar(crop), shape)
           IN  /\ locals' = [locals EXCEPT !.loc_ = Loc(cr)]
               /\ crop' = SetHarvestDate(SetCalibrated(cr, Loc(cr)))
    /\ pc' = "schedule"
    /\ UNCHANGED <<call, ret, soil, crop0, clock, raised>>

\* lines 219-239: GDD mode, no calibration
CalendarOnly ==
    /\ pc = "calendar" /\ crop.CalendarType = 2 /\ crop.need_calib # 1
    /\ crop' = SetHarvestDate(compute_crop_calendar(crop))
    /\ pc' = "schedule"
    /\ UNCHANGED <<call, ret, soil, crop0, clock, locals, raised>>

\* lines 245-246: calendar days mode
CalendarDaysMode ==
    /\ pc = "calendar" /\ crop.CalendarType = 1
    /\ raised' = "ValueError: calendar days mode"
    /\ pc' = "raised"
    /\ UNCHANGED <<call, ret, soil, crop, crop0, clock, locals>>

\* lines 250-271: a season within one year
ScheduleSingleYear ==
    /\ pc = "schedule" /\ SingleYear(crop)
    /\ LET start_year == clock.simulation_start_date[1]
           end_year   == clock.simulation_end_date[1]
           mock_end   == to_datetime(RefYear, <<clock.simulation_end_date[2],
                                                clock.simulation_end_date[3]>>)
           mock_start == to_datetime(RefYear, crop.planting_date)
       IN  IF mock_end = <<>>
           THEN /\ raised' = "ValueError: day is out of range for month"
                /\ pc' = "raised"
                /\ UNCHANGED locals
           ELSE LET last == IF LastYearDoesNotStart(mock_end, mock_start)
                            THEN end_year - 1 ELSE end_year
                    plant_years == Range(start_year, last + 1)
                IN  /\ locals' = [locals EXCEPT !.plant_years = plant_years,
                                                  !.harvest_years = plant_years]
                    /\ pc' = "adjust"
                    /\ UNCHANGED raised
    /\ UNCHANGED <<call, ret, soil, crop, crop0, clock>>

\* lines 250-256 and 272-287: a season that runs over the end of the year
ScheduleCrossYear ==
    /\ pc = "schedule" /\ ~SingleYear(crop)
    /\ LET ys == CrossYearYears(clock.simulation_start_date[1],
                                clock.simulation_end_date[1],
                                CoversTwoMoreYears(crop, clock, clock.simulation_end_date[1]))
       IN  locals' = [locals EXCEPT !.plant_years = ys.plant_years,
                                    !.harvest_years = ys.harvest_years]
    /\ pc' = "adjust"
    /\ UNCHANGED <<call, ret, soil, crop, crop0, clock, raised>>

\* lines 289-300: the partial first season, the assertion
AdjustFirstSeason ==
    /\ pc = "adjust"
    /\ IF locals.plant_years = <<>>
       THEN /\ raised' = "IndexError: plant_years[0]"
            /\ pc' = "raised"
            /\ UNCHANGED locals
       ELSE LET drop == PartialFirstSeason(crop, clock, locals.plant_years)
                py == IF drop THEN Tail(locals.plant_years) ELSE locals.plant_years
                hy == IF drop THEN Tail(locals.harvest_years) ELSE locals.harvest_years
            IN  /\ locals' = [locals EXCEPT !.plant_years = py, !.harvest_years = hy]
                /\ IF Len(py) = Len(hy)
                   THEN pc' = "seasons" /\ UNCHANGED raised
                   ELSE pc' = "raised" /\ raised' = "AssertionError"
    /\ UNCHANGED <<call, ret, soil, crop, crop0, clock>>

\* lines 303-332: the season dates and the season counter
SaveSeasons ==
    /\ pc = "seasons"
    /\ LET planting_dates == SeasonDates(locals.plant_years, crop.planting_date)
           harvest_dates  == SeasonDates(locals.harvest_years, crop.harvest_date)
           saved == [clock EXCEPT !.planting_dates = planting_dates,
                                  !.harvest_dates = harvest_dates,
                                  !.n_seasons = Len(planting_dates)]
       IN  IF planting_dates = <<>>
           THEN /\ clock' = saved
                /\ raised' = "IndexError: planting_dates[0]"
                /\ pc' = "raised"
           ELSE /\ clock' = [saved EXCEPT !.season_counter =
                                 IF clock.step_start_time = planting_dates[1]
                                 THEN 0 ELSE -1]
                /\ pc' = "done"
                /\ UNCHANGED raised
    /\ UNCHANGED <<call, ret, soil, crop, crop0, locals>>

SetupNext ==
    \/ WhileDepth
    \/ Grow
    \/ CalibrateNoStress
    \/ Calibrate
    \/ CalendarOnly
    \/ CalendarDaysMode
    \/ ScheduleSingleYear
    \/ ScheduleCrossYear
    \/ AdjustFirstSeason
    \/ SaveSeasons

\* the inputs the model draws
NComp == 2
NYears == 3
DzSet == {10, 30}
ZmaxSet == {20, 40, 100}
Years == 2019..(2019 + NYears - 1)
StartDays == {<<1, 1>>, <<6, 15>>}
EndDays == {<<2, 29>>, <<6, 15>>, <<12, 31>>}
PlantingDays == {<<3, 1>>, <<6, 15>>, <<10, 1>>}
MaturitySet == {100, 335}
StressSet == {0, 250, 505}

SetupInit ==
    /\ pc = "while_depth"
    /\ \E dz \in [1..NComp -> DzSet] : soil = fill_nan(dz)
    /\ crop \in [Zmax : ZmaxSet, CalendarType : {1, 2}, need_calib : {0, 1},
                 sfertstress : StressSet, planting_date : PlantingDays,
                 harvest_date : {<<9, 1>>}, MaturityCD : MaturitySet,
                 thresholds : {"days"}, curve : {"none"},
                 Ksccx : {0}, Ksexpf : {0}, Kswp : {0}, fcdecline : {0}]
    /\ crop0 = crop
    /\ \E s \in Years \X StartDays, e \in Years \X EndDays :
           LET sd == <<s[1], s[2][1], s[2][2]>>
               ed == <<e[1], e[2][1], e[2][2]>>
           IN  /\ ValidDate(s[1], s[2]) /\ ValidDate(e[1], e[2])
               /\ DateLt(sd, ed)
               /\ clock = [simulation_start_date |-> sd, simulation_end_date |-> ed,
                           step_start_time |-> sd, planting_dates |-> <<>>,
                           harvest_dates |-> <<>>, n_seasons |-> 0,
                           season_counter |-> -1]
    /\ locals = [plant_years |-> <<>>, harvest_years |-> <<>>, loc_ |-> 0]
    /\ raised = "none"

---------------------------------------------------------------------------
(* Specifications                                                          *)

\* rainfall_partition, applied once to each drawn argument list
InitRain ==
    /\ RainInit
    /\ pc = "idle" /\ soil = <<>> /\ crop = <<>> /\ crop0 = <<>>
    /\ clock = <<>> /\ locals = <<>> /\ raised = "none"

NextRain == CallRainfallPartition

SpecRain == InitRain /\ [][NextRain]_vars

\* read_model_parameters, called once on each drawn soil, crop and clock
InitSetup == SetupInit /\ call = NoCall /\ ret = NoRet

SpecSetup == InitSetup /\ [][SetupNext]_vars

\* the soil columns and crop depths of SetupInit, with a few crops and one clock
InitDepthLoop ==
    /\ InitSetup
    /\ crop.sfertstress \in {0, 250} /\ crop.MaturityCD = 100
    /\ crop.planting_date \in {<<3, 1>>, <<10, 1>>}
    /\ clock.simulation_start_date = <<2019, 1, 1>>
    /\ clock.simulation_end_date = <<2021, 12, 31>>

\* the interpreter always takes the next step of the depth loop
FairSetup ==
    InitDepthLoop /\ [][SetupNext]_vars /\ WF_vars(WhileDepth) /\ WF_vars(Grow)

---------------------------------------------------------------------------
(* Claims                                                                  *)

MonthDay(date) == <<date[2], date[3]>>
OnYear(y, md) == <<y, md[1], md[2]>>

\* C1: in the runoff branch with an effective curve number in (0, 100],
\* Runoff <= precipitation and Infl + Runoff = precipitation.
C1_RunoffConserved ==
    (/\ ret.status = "returned" /\ ret.branch = "runoff"
     /\ FLt(FZero, ret.CN) /\ FLe(ret.CN, FromInt(100)))
    => /\ FLe(ret.Runoff, call.precipitation)
       /\ FAdd(ret.Infl, ret.Runoff) = call.precipitation

\* C2: in the runoff branch an effective curve number <= 0 ends the call with
\* a DomainError: no division by it, no runoff and infiltration returned.
C2_DomainErrorGuard ==
    (ret.status # "pending" /\ ret.branch = "runoff" /\ FLe(ret.CN, FZero))
    => ret.status = "DomainError"

\* runoff is inhibited, or bunds are present with height >= 0.001
Inhibited(c) == c.SRinhb # 0 \/ (c.Bunds # 0 /\ FLe(cBundMin, c.zBund))

\* C9: with runoff inhibited, or bunds of height >= 0.001, the call returns
\* Runoff = 0, Infl = precipitation and the days_submerged it was given; in every
\* other case the days_submerged it returns is 0.
C9_FieldManagementOverride ==
    ret.status # "pending" =>
        IF Inhibited(call)
        THEN /\ ret.status = "returned"
             /\ ret.Runoff = FZero
             /\ ret.Infl = call.precipitation
             /\ ret.DaySubmerged = call.DaySubmerged
        ELSE ret.status = "returned" => ret.DaySubmerged = 0

C9_Witness ==
    /\ ret.status = "returned"
    /\ call.SRinhb = 0 /\ call.Bunds = 1 /\ call.zBund = cBundMin
    /\ call.precipitation = FromInt(187) /\ call.DaySubmerged = 3
    /\ ret.Infl = FromInt(187) /\ ret.DaySubmerged = 3

\* C3: the soil depth loop terminates: the function always gets past it (or
\* leaves with an error).
C3_DepthLoopTerminates == <>(pc \notin {"while_depth", "grow"})

\* C4: when the error for a missing stress value is raised, the calibrated
\* coefficients, the calendar and the harvest date of the crop are as they were
\* when the function was entered.
C4_NoPartialMutation ==
    raised = "ValueError: no stress value" =>
        /\ crop.Ksccx = crop0.Ksccx /\ crop.Ksexpf = crop0.Ksexpf
        /\ crop.Kswp = crop0.Kswp /\ crop.fcdecline = crop0.fcdecline
        /\ crop.thresholds = crop0.thresholds
        /\ crop.harvest_date = crop0.harvest_date

\* C5: once past the crop calendar step, the calendar-days error has been
\* raised if and only if the crop is in calendar days mode and calibration was
\* requested.
C5_UnsupportedModeIff ==
    pc \in {"schedule", "adjust", "seasons", "done", "raised"} =>
        (raised = "ValueError: calendar days mode"
            <=> (crop0.CalendarType = 1 /\ crop0.need_calib = 1))

\* the day/month of planting precedes the day/month of harvest
PlantingPrecedesHarvest == DateLt(OnYear(0, crop.planting_date), OnYear(0, crop.harvest_date))

C7_FirstSeasonIsSecondYear ==
    LET start == clock.simulation_start_date
        late  == DateLt(OnYear(start[1], crop.planting_date), start)
    IN  (pc = "done" \/ raised = "IndexError: planting_dates[0]") =>
            /\ pc = "done"
            /\ clock.planting_dates[1][1] = (IF late THEN start[1] + 1 ELSE start[1])

\* the first 100 rows of the curve on the crop
Rows == 1..RowLimit

\* C8: with a stress value set, the calibrator picks the row among the first 100
\* whose stress_fraction is nearest to it, the lowest such row on a tie, and the
\* four coefficients of the crop are the curve's values in that row; if the first
\* 100 stress fractions increase strictly and row k holds the stress value, the
\* row picked is k.
C8_NearestRowLowestIndex ==
    (pc \in {"schedule", "adjust", "seasons", "done"} /\ crop0.need_calib = 1
     /\ crop.sfertstress # 0) =>
        LET sf == sf_es(crop.curve)
            dist == [i \in Rows |-> Abs(sf[i] - crop.sfertstress)]
            loc_ == locals.loc_
        IN  /\ loc_ \in Rows
            /\ \A j \in Rows : dist[loc_] <= dist[j]
            /\ \A j \in Rows : j < loc_ => dist[j] > dist[loc_]
            /\ crop.Ksccx = Ksccx_es(crop.curve)[loc_]
            /\ crop.Ksexpf = Ksexpf_es(crop.curve)[loc_]
            /\ crop.Kswp = Kswp_es(crop.curve)[loc_]
            /\ crop.fcdecline = fcdecline_es(crop.curve)[loc_]
            /\ (\A i \in Rows : i < RowLimit => sf[i] < sf[i + 1])
               => \A k \in Rows : sf[k] = crop.sfertstress => loc_ = k

\* the stress value 0.250 sits in rows 51 and 52 of the curve with plateaus
C8_Witness ==
    /\ pc = "schedule" /\ crop0.need_calib = 1 /\ crop.curve = "plateaus"
    /\ crop.sfertstress = 250
    /\ sf_es(crop.curve)[51] = 250 /\ sf_es(crop.curve)[52] = 250
    /\ locals.loc_ = 51 /\ crop.Ksccx = 1051 /\ crop.fcdecline = 4051

\* C10: after the scheduling cases and the correction of the first season the
\* two year lists have the same length (the assertion holds), and in the seasons
\* returned every planting date is before its harvest date, the harvest in the
\* same year for a single-year season and in the next year otherwise.
C10_SeasonsConsistent ==
    /\ raised # "AssertionError"
    /\ pc \in {"seasons", "done"} => Len(locals.plant_years) = Len(locals.harvest_years)
    /\ pc = "done" =>
        /\ Len(clock.planting_dates) = Len(clock.harvest_dates)
        /\ clock.n_seasons = Len(clock.planting_dates)
        /\ \A i \in DOMAIN clock.planting_dates :
            /\ DateLt(clock.planting_dates[i], clock.harvest_dates[i])
            /\ clock.harvest_dates[i][1] =
                   clock.planting_dates[i][1] + (IF PlantingPrecedesHarvest THEN 0 ELSE 1)

\* two seasons that run over the end of the year
C10_Witness ==
    /\ pc = "done" /\ ~PlantingPrecedesHarvest
    /\ clock.n_seasons = 2
    /\ clock.harvest_dates[2][1] = clock.planting_dates[2][1] + 1

====
